---- MODULE Spec2Model ----
(***************************************************************************)
(* Model of get_response's response normalization (analysis.py, lines      *)
(* 114-142): the upstream payload is inspected for a first choice, its     *)
(* content is parsed as JSON, then searched for a json-tagged fenced block, *)
(* then passed through; a payload without choices yields the error marker. *)
(*                                                                         *)
(* Texts are sequences of one-character strings.  JSON values are records  *)
(* [t, s, k]: t the type tag, s the characters of a string or number, k    *)
(* the children (array elements, or key/value alternating for an object).  *)
(***************************************************************************)
EXTENDS Integers, Sequences, FiniteSets, TLC

\* ------------------------------------------------------------------------
\* Characters
\* ------------------------------------------------------------------------
NL == "\n"
FF == "\f"
QUOTE == "\""
BSLASH == "\\"
\* the backtick, written as a named token
TICK == "BACKTICK"

Digits == {"0", "1"}

\* json.decoder.WHITESPACE is [ \t\n\r]*; the texts of the model use " " and NL
JsonWS == {" ", NL}

\* the whitespace class of the regular expression also matches the form feed
ReWS == {" ", NL, FF}

\* characters below 0x20, rejected inside a string by the strict decoder
ControlChars == {NL, FF}

\* ------------------------------------------------------------------------
\* JSON values
\* ------------------------------------------------------------------------
JNull == [t |-> "null", s |-> <<>>, k |-> <<>>]
JFalse == [t |-> "false", s |-> <<>>, k |-> <<>>]
JNum(ds) == [t |-> "num", s |-> ds, k |-> <<>>]
JStr(cs) == [t |-> "str", s |-> cs, k |-> <<>>]
JArr(vs) == [t |-> "arr", s |-> <<>>, k |-> vs]
JObj(kvs) == [t |-> "obj", s |-> <<>>, k |-> kvs]

\* dict lookup: index of the value of key name in the object, 0 when absent
KeyIndex(obj, name) ==
    IF \E j \in 1..(Len(obj.k) \div 2) : obj.k[2*j - 1].s = name
    THEN 2 * (CHOOSE j \in 1..(Len(obj.k) \div 2) : obj.k[2*j - 1].s = name)
    ELSE 0

\* ------------------------------------------------------------------------
\* json.dumps(value, indent=2)
\* ------------------------------------------------------------------------
Indent == 2

RECURSIVE Repeat(_, _)
Repeat(c, n) == IF n <= 0 THEN <<>> ELSE <<c>> \o Repeat(c, n - 1)

NewlineIndent(level) == <<NL>> \o Repeat(" ", Indent * level)

\* EscapeChar without any escaping
EscapeCharRaw(c) == <<c>>

EscapeChar(c) ==
    CASE c = QUOTE -> <<BSLASH, QUOTE>>
      [] c = BSLASH -> <<BSLASH, BSLASH>>
      [] c = NL -> <<BSLASH, "n">>
      [] c = FF -> <<BSLASH, "f">>
      [] OTHER -> <<c>>

RECURSIVE EscapeAll(_)
EscapeAll(cs) == IF cs = <<>> THEN <<>> ELSE EscapeChar(Head(cs)) \o EscapeAll(Tail(cs))

EncodeString(cs) == <<QUOTE>> \o EscapeAll(cs) \o <<QUOTE>>

RECURSIVE Encode(_, _)
RECURSIVE EncodeList(_, _, _)
RECURSIVE EncodeDict(_, _, _)

\* elements j.. of an array, each on its own line at the given level
EncodeList(vs, j, level) ==
    IF j > Len(vs) THEN <<>>
    ELSE (IF j > 1 THEN <<",">> ELSE <<>>)
         \o NewlineIndent(level) \o Encode(vs[j], level)
         \o EncodeList(vs, j + 1, level)

\* pairs j.. of an object, each "key": value on its own line
EncodeDict(kvs, j, level) ==
    IF 2 * j > Len(kvs) THEN <<>>
    ELSE (IF j > 1 THEN <<",">> ELSE <<>>)
         \o NewlineIndent(level) \o EncodeString(kvs[2*j - 1].s) \o <<":", " ">>
         \o Encode(kvs[2*j], level)
         \o EncodeDict(kvs, j + 1, level)

Encode(v, level) ==
    CASE v.t = "null" -> <<"n", "u", "l", "l">>
      [] v.t = "false" -> <<"f", "a", "l", "s", "e">>
      [] v.t = "num" -> v.s
      [] v.t = "str" -> EncodeString(v.s)
      [] v.t = "arr" ->
            IF v.k = <<>> THEN <<"[", "]">>
            ELSE <<"[">> \o EncodeList(v.k, 1, level + 1) \o NewlineIndent(level) \o <<"]">>
      [] v.t = "obj" ->
            IF v.k = <<>> THEN <<"{", "}">>
            ELSE <<"{">> \o EncodeDict(v.k, 1, level + 1) \o NewlineIndent(level) \o <<"}">>

Dumps(v) == Encode(v, 0)

\* ------------------------------------------------------------------------
\* json.loads(text)
\* ------------------------------------------------------------------------
\* a scan result: ok, the value and the index after it
NoScan == [ok |-> FALSE, v |-> JNull, i |-> 0]
Scanned(v, i) == [ok |-> TRUE, v |-> v, i |-> i]

At(s, i) == IF i >= 1 /\ i <= Len(s) THEN s[i] ELSE "EOF"

StartsWithAt(s, i, w) ==
    /\ i >= 1
    /\ i + Len(w) - 1 <= Len(s)
    /\ \A j \in 1..Len(w) : s[i + j - 1] = w[j]

RECURSIVE SkipWS(_, _)
SkipWS(s, i) == IF At(s, i) \in JsonWS THEN SkipWS(s, i + 1) ELSE i

\* py_scanstring, strict: i is the index after the opening quote
RECURSIVE ScanString(_, _, _)
ScanString(s, i, acc) ==
    LET c == At(s, i) IN
    CASE c = "EOF" -> NoScan
      [] c = QUOTE -> Scanned(JStr(acc), i + 1)
      [] c \in ControlChars -> NoScan
      [] c = BSLASH ->
            LET e == At(s, i + 1) IN
            CASE e = QUOTE -> ScanString(s, i + 2, Append(acc, QUOTE))
              [] e = BSLASH -> ScanString(s, i + 2, Append(acc, BSLASH))
              [] e = "n" -> ScanString(s, i + 2, Append(acc, NL))
              [] e = "f" -> ScanString(s, i + 2, Append(acc, FF))
              [] OTHER -> NoScan
      [] OTHER -> ScanString(s, i + 1, Append(acc, c))

\* NUMBER_RE, integer part: 0 | [1-9][0-9]*
RECURSIVE ScanDigits(_, _)
ScanDigits(s, i) == IF At(s, i) \in Digits THEN ScanDigits(s, i + 1) ELSE i

ScanNumber(s, i) ==
    IF At(s, i) = "0" THEN Scanned(JNum(<<"0">>), i + 1)
    ELSE LET e == ScanDigits(s, i) IN Scanned(JNum(SubSeq(s, i, e - 1)), e)

\* DictSet putting each new pair in front
DictSetFront(kvs, key, val) == <<key, val>> \o kvs

\* dict(pairs): a repeated key keeps its first position and takes the last value
DictSet(kvs, key, val) ==
    LET at == KeyIndex(JObj(kvs), key.s) IN
    IF at = 0 THEN kvs \o <<key, val>>
    ELSE [kvs EXCEPT ![at] = val]

RECURSIVE ScanOnce(_, _)
RECURSIVE ScanArray(_, _, _)
RECURSIVE ScanObject(_, _, _)

\* ScanArray collecting the elements in front: the array comes out reversed
RECURSIVE ScanArrayReversed(_, _, _)
ScanArrayReversed(s, i, acc) ==
    LET r == ScanOnce(s, i) IN
    IF ~r.ok THEN NoScan
    ELSE LET e == SkipWS(s, r.i)
             c == At(s, e)
         IN CASE c = "]" -> Scanned(JArr(<<r.v>> \o acc), e + 1)
              [] c = "," -> ScanArrayReversed(s, SkipWS(s, e + 1), <<r.v>> \o acc)
              [] OTHER -> NoScan

\* JSONArray loop: i is at the start of an element
ScanArray(s, i, acc) ==
    LET r == ScanOnce(s, i) IN
    IF ~r.ok THEN NoScan
    ELSE LET e == SkipWS(s, r.i)
             c == At(s, e)
         IN CASE c = "]" -> Scanned(JArr(Append(acc, r.v)), e + 1)
              [] c = "," -> ScanArray(s, SkipWS(s, e + 1), Append(acc, r.v))
              [] OTHER -> NoScan

\* JSONObject loop: i is at the opening quote of a property name
ScanObject(s, i, acc) ==
    IF At(s, i) # QUOTE THEN NoScan
    ELSE LET key == ScanString(s, i + 1, <<>>) IN
         IF ~key.ok THEN NoScan
         ELSE LET colon == SkipWS(s, key.i) IN
              IF At(s, colon) # ":" THEN NoScan
              ELSE LET r == ScanOnce(s, SkipWS(s, colon + 1)) IN
                   IF ~r.ok THEN NoScan
                   ELSE LET e == SkipWS(s, r.i)
                            c == At(s, e)
                            pairs == DictSet(acc, key.v, r.v)
                        IN CASE c = "}" -> Scanned(JObj(pairs), e + 1)
                             [] c = "," -> ScanObject(s, SkipWS(s, e + 1), pairs)
                             [] OTHER -> NoScan

\* scanner.py_make_scanner._scan_once
ScanOnce(s, i) ==
    LET c == At(s, i) IN
    CASE c = QUOTE -> ScanString(s, i + 1, <<>>)
      [] c = "{" ->
            LET e == SkipWS(s, i + 1) IN
            IF At(s, e) = "}" THEN Scanned(JObj(<<>>), e + 1)
            ELSE ScanObject(s, e, <<>>)
      [] c = "[" ->
            LET e == SkipWS(s, i + 1) IN
            IF At(s, e) = "]" THEN Scanned(JArr(<<>>), e + 1)
            ELSE ScanArray(s, e, <<>>)
      [] c = "f" ->
            IF StartsWithAt(s, i, <<"f", "a", "l", "s", "e">>)
            THEN Scanned(JFalse, i + 5) ELSE NoScan
      [] c \in Digits -> ScanNumber(s, i)
      [] OTHER -> NoScan

\* JSONDecoder.decode: leading whitespace, one value, trailing whitespace, end
Loads(s) ==
    LET r == ScanOnce(s, SkipWS(s, 1)) IN
    IF r.ok /\ SkipWS(s, r.i) = Len(s) + 1 THEN r ELSE NoScan

\* ------------------------------------------------------------------------
\* re.search(r'```json\s*(.*?)\s*```', content, re.DOTALL)
\* ------------------------------------------------------------------------
FenceOpen == <<TICK, TICK, TICK, "j", "s", "o", "n">>
FenceClose == <<TICK, TICK, TICK>>

RECURSIVE SkipReWS(_, _)
SkipReWS(s, i) == IF At(s, i) \in ReWS THEN SkipReWS(s, i + 1) ELSE i

\* the tail \s*``` of the pattern matches at index e
ClosesAt(s, e) == StartsWithAt(s, SkipReWS(s, e), FenceClose)

\* the pattern matches with its opening fence at index p
MatchesAt(s, p) ==
    /\ StartsWithAt(s, p, FenceOpen)
    /\ \E e \in SkipReWS(s, p + Len(FenceOpen))..(Len(s) + 1) : ClosesAt(s, e)

\* GroupAt with a greedy group, (.*) for (.*?): it runs to the last closing fence
GroupAtGreedy(s, p) ==
    LET q == SkipReWS(s, p + Len(FenceOpen))
        e == CHOOSE e \in q..(Len(s) + 1) :
                /\ ClosesAt(s, e)
                /\ \A d \in (e + 1)..(Len(s) + 1) : ~ClosesAt(s, d)
    IN [first |-> q, last |-> e - 1, close |-> SkipReWS(s, e) + Len(FenceClose)]

\* group(1) of the match whose opening fence is at p: the greedy \s* takes the
\* whole whitespace run, the lazy (.*?) stops at the first index where the tail matches
GroupAt(s, p) ==
    LET q == SkipReWS(s, p + Len(FenceOpen))
        e == CHOOSE e \in q..(Len(s) + 1) :
                /\ ClosesAt(s, e)
                /\ \A d \in q..(e - 1) : ~ClosesAt(s, d)
    IN [first |-> q, last |-> e - 1, close |-> SkipReWS(s, e) + Len(FenceClose)]

\* re.search: the leftmost index at which the pattern matches
NoMatch == [found |-> FALSE, group1 |-> <<>>, start |-> 0, end |-> 0]

SearchFrom(s, from) ==
    IF \E p \in from..Len(s) : MatchesAt(s, p)
    THEN LET p == CHOOSE p \in from..Len(s) :
                     MatchesAt(s, p) /\ \A o \in from..(p - 1) : ~MatchesAt(s, o)
             g == GroupAt(s, p)
         IN [found |-> TRUE, group1 |-> SubSeq(s, g.first, g.last),
             start |-> p, end |-> g.close]
    ELSE NoMatch

ReSearch(s) == SearchFrom(s, 1)

\* the json-tagged fenced blocks of a text, left to right, without overlap
RECURSIVE BlocksFrom(_, _)
BlocksFrom(s, from) ==
    LET m == SearchFrom(s, from) IN
    IF ~m.found THEN <<>> ELSE <<m.group1>> \o BlocksFrom(s, m.end)

\* ------------------------------------------------------------------------
\* get_response, lines 114-142
\* ------------------------------------------------------------------------
Sentinel == <<"E", "R", "R", "O", "R", " ", "P", "R", "O", "C", "E", "S", "S", "I", "N", "G", " ", "I", "M", "A", "G", "E", ":", " ">>

K_choices == <<"c", "h", "o", "i", "c", "e", "s">>
K_message == <<"m", "e", "s", "s", "a", "g", "e">>
K_content == <<"c", "o", "n", "t", "e", "n", "t">>

\* an outcome of a call: nothing yet, a returned string, or a raised exception
NoOutcome == [kind |-> "none", text |-> <<>>, stage |-> "none"]
Return(text, stage) == [kind |-> "return", text |-> text, stage |-> stage]
Raise(exc) == [kind |-> "raise", text |-> <<>>, stage |-> exc]

\* len(x) of a parsed JSON value; -1 stands for the TypeError of len(None), len(1), len(False)
PyLen(v) ==
    CASE v.t = "arr" -> Len(v.k)
      [] v.t = "obj" -> Len(v.k) \div 2
      [] v.t = "str" -> Len(v.s)
      [] OTHER -> -1

\* line 117: 'choices' in response_json and len(response_json['choices']) > 0
\* "yes" / "no", or the exception that the test raises
ChoicesTest(rj) ==
    LET at == KeyIndex(rj, K_choices) IN
    IF at = 0 THEN "no"
    ELSE IF PyLen(rj.k[at]) < 0 THEN "TypeError"
    ELSE IF PyLen(rj.k[at]) > 0 THEN "yes" ELSE "no"

\* x[name] on a parsed JSON value
Subscript(v, name) ==
    IF v.t # "obj" THEN [exc |-> "TypeError", v |-> JNull]
    ELSE IF KeyIndex(v, name) = 0 THEN [exc |-> "KeyError", v |-> JNull]
    ELSE [exc |-> "none", v |-> v.k[KeyIndex(v, name)]]

\* line 118: response_json['choices'][0]['message']['content']
FirstContent(rj) ==
    LET choices == rj.k[KeyIndex(rj, K_choices)] IN
    IF choices.t = "obj" THEN [exc |-> "KeyError", v |-> JNull]
    ELSE IF choices.t # "arr" THEN [exc |-> "TypeError", v |-> JNull]
    ELSE LET message == Subscript(choices.k[1], K_message) IN
         IF message.exc # "none" THEN message
         ELSE Subscript(message.v, K_content)

\* lines 121-126: json.loads(content), json.dumps(food_json, indent=2)
\* json.loads of a value that is not a str raises TypeError, which the
\* except json.JSONDecodeError clause does not catch
DirectParse(content) ==
    IF content.t # "str" THEN Raise("TypeError")
    ELSE LET r == Loads(content.s) IN
         IF r.ok THEN Return(Dumps(r.v), "direct") ELSE NoOutcome

\* FencedExtraction going on to the later blocks when the first does not parse
FencedExtractionRetry(content) ==
    LET blocks == BlocksFrom(content.s, 1)
        good == {j \in 1..Len(blocks) : Loads(blocks[j]).ok}
    IN IF good = {} THEN NoOutcome
       ELSE Return(Dumps(Loads(blocks[CHOOSE j \in good : \A h \in good : j <= h]).v), "fence")

\* lines 128-135: the first fenced block, parsed; a failure is swallowed
FencedExtraction(content) ==
    LET json_match == ReSearch(content.s) IN
    IF json_match.found /\ Loads(json_match.group1).ok
    THEN Return(Dumps(Loads(json_match.group1).v), "fence")
    ELSE NoOutcome

\* PassThrough stripping a text that is all whitespace
PassThroughStripped(content) ==
    Return(IF \A i \in 1..Len(content.s) : content.s[i] \in ReWS THEN <<>> ELSE content.s, "pass")

\* line 138
PassThrough(content) == Return(content.s, "pass")

\* ErrorMarker without the prefix
ErrorMarkerBare(rj) == Return(Dumps(rj), "marker")

\* line 142
ErrorMarker(rj) == Return(Sentinel \o Dumps(rj), "marker")

\* ------------------------------------------------------------------------
\* Upstream payloads: what completion.model_dump_json() can hold (line 114)
\* ------------------------------------------------------------------------
NumProcs == 2
MaxElems == 2
MaxLen == 3

Procs == 1..NumProcs

K_id == <<"i", "d">>
K_error == <<"e", "r", "r", "o", "r">>

\* a payload whose first choice carries the given content value
ChoicePayload(c) ==
    JObj(<<JStr(K_id), JStr(<<"x">>),
           JStr(K_choices), JArr(<<JObj(<<JStr(K_message), JObj(<<JStr(K_content), c>>)>>)>>)>>)

ContentPayload(text) == ChoicePayload(JStr(text))

\* payloads that carry no completion content
NoChoicesPayloads ==
    { JObj(<<>>),
      JObj(<<JStr(K_error), JStr(<<"t", "i", "m", "e", "o", "u", "t">>)>>),
      JObj(<<JStr(K_id), JStr(<<"x">>), JStr(K_choices), JArr(<<>>)>>),
      JObj(<<JStr(K_id), JStr(<<"x", QUOTE, NL>>), JStr(K_choices), JArr(<<>>),
             JStr(K_error), JObj(<<JStr(<<"a">>), JArr(<<JNum(<<"1">>), JFalse>>)>>)>>) }

NullChoicesPayload == JObj(<<JStr(K_id), JStr(<<"x">>), JStr(K_choices), JNull>>)

NoContentPayloads ==
    { ChoicePayload(JNull),
      JObj(<<JStr(K_choices), JArr(<<JObj(<<JStr(K_message), JObj(<<>>)>>)>>)>>),
      JObj(<<JStr(K_choices), JArr(<<JObj(<<JStr(K_message), JNull>>)>>)>>) }

\* ------------------------------------------------------------------------
\* Raw texts: what the first choice's content can be (line 118)
\* ------------------------------------------------------------------------
RECURSIVE SeqsUpTo(_, _)
SeqsUpTo(S, n) ==
    IF n = 0 THEN {<<>>}
    ELSE LET shorter == SeqsUpTo(S, n - 1) IN
         shorter \cup {Append(q, x) : q \in {r \in shorter : Len(r) = n - 1}, x \in S}

\* The texts are written over the characters that the operators above decide
\* exactly: braces, brackets, colon, comma, quote, backslash, space, newline,
\* form feed, backtick, the digits 0 and 1 and letters.  They hold no
\* fraction, exponent or sign, no literal other than false, and no escape
\* other than the escapes of the quote, the backslash, the newline and the form feed.

\* JSON documents
FenceInString == <<TICK, TICK, TICK, "j", "s", "o", "n", " ", "1", " ", TICK, TICK, TICK>>
ElemScalars == {JNum(<<"1">>), JStr(<<"x">>), JFalse}
TopScalars ==
    ElemScalars \cup {JNum(<<"0">>), JNum(<<"1", "0">>), JStr(<<>>), JStr(FenceInString),
                      JStr(<<QUOTE, BSLASH>>), JStr(<<"x", NL, FF>>)}
KeyNames == {<<"a">>, <<"b">>}

KeySeqs == {ks \in SeqsUpTo(KeyNames, MaxElems) : \A i, j \in 1..Len(ks) : i # j => ks[i] # ks[j]}

\* the key/value alternation of an object with keys ks and values vs
Interleave(ks, vs) == [i \in 1..(2 * Len(ks)) |->
                          IF i % 2 = 1 THEN JStr(ks[(i + 1) \div 2]) ELSE vs[i \div 2]]

ArraysOver(S) == {JArr(vs) : vs \in SeqsUpTo(S, MaxElems)}
ObjectsOver(S) ==
    {JObj(Interleave(kv[1], kv[2])) :
        kv \in {c \in KeySeqs \X SeqsUpTo(S, MaxElems) : Len(c[1]) = Len(c[2])}}

Containers == ArraysOver(ElemScalars) \cup ObjectsOver(ElemScalars)
Nested ==
    {JArr(<<c>>) : c \in Containers}
    \cup {JObj(<<JStr(<<"a">>), c, JStr(<<"b">>), JStr(FenceInString)>>) : c \in Containers}
    \cup {JObj(<<JStr(<<"b">>), JArr(<<JNum(<<"1">>), c>>)>>) : c \in Containers}

Docs == TopScalars \cup Containers \cup Nested

\* The texts of a document are written apart from json.dumps: a string literal,
RECURSIVE Quoted(_)
Quoted(cs) ==
    IF cs = <<>> THEN <<>>
    ELSE (CASE Head(cs) \in {QUOTE, BSLASH} -> <<BSLASH, Head(cs)>>
            [] Head(cs) = NL -> <<BSLASH, "n">>
            [] Head(cs) = FF -> <<BSLASH, "f">>
            [] OTHER -> <<Head(cs)>>)
         \o Quoted(Tail(cs))

Literal(cs) == <<QUOTE>> \o Quoted(cs) \o <<QUOTE>>

Scalar(v) ==
    CASE v.t = "str" -> Literal(v.s)
      [] v.t = "num" -> v.s
      [] v.t = "false" -> <<"f", "a", "l", "s", "e">>
      [] OTHER -> <<"n", "u", "l", "l">>

\* a serialization on one line with the given separators,
RECURSIVE Write(_, _, _)
RECURSIVE WriteItems(_, _, _, _)
WriteItems(v, j, itemSep, keySep) ==
    IF (v.t = "arr" /\ j > Len(v.k)) \/ (v.t = "obj" /\ 2 * j > Len(v.k)) THEN <<>>
    ELSE (IF j > 1 THEN itemSep ELSE <<>>)
         \o (IF v.t = "arr" THEN Write(v.k[j], itemSep, keySep)
             ELSE Literal(v.k[2*j - 1].s) \o keySep \o Write(v.k[2*j], itemSep, keySep))
         \o WriteItems(v, j + 1, itemSep, keySep)

Write(v, itemSep, keySep) ==
    CASE v.t = "arr" -> <<"[">> \o WriteItems(v, 1, itemSep, keySep) \o <<"]">>
      [] v.t = "obj" -> <<"{">> \o WriteItems(v, 1, itemSep, keySep) \o <<"}">>
      [] OTHER -> Scalar(v)

Compact(v) == Write(v, <<",">>, <<":">>)

\* and the canonical serialization: one item per line, two spaces per level,
\* keys and elements in their order
Pad(level) == [i \in 1..(2 * level) |-> " "]

RECURSIVE Canonical(_, _)
RECURSIVE CanonicalItems(_, _, _)
CanonicalItems(v, j, level) ==
    IF (v.t = "arr" /\ j > Len(v.k)) \/ (v.t = "obj" /\ 2 * j > Len(v.k)) THEN <<>>
    ELSE (IF j > 1 THEN <<",">> ELSE <<>>) \o <<NL>> \o Pad(level)
         \o (IF v.t = "arr" THEN Canonical(v.k[j], level)
             ELSE Literal(v.k[2*j - 1].s) \o <<":", " ">> \o Canonical(v.k[2*j], level))
         \o CanonicalItems(v, j + 1, level)

Canonical(v, level) ==
    IF v.t \notin {"arr", "obj"} THEN Scalar(v)
    ELSE IF v.k = <<>> THEN (IF v.t = "arr" THEN <<"[", "]">> ELSE <<"{", "}">>)
    ELSE (IF v.t = "arr" THEN <<"[">> ELSE <<"{">>)
         \o CanonicalItems(v, 1, level + 1) \o <<NL>> \o Pad(level)
         \o (IF v.t = "arr" THEN <<"]">> ELSE <<"}">>)

Serializations(v) ==
    { Compact(v),
      Write(v, <<",", " ">>, <<":", " ">>),
      <<" ", NL>> \o Write(v, <<NL, ",", " ">>, <<" ", ":", NL>>) \o <<NL>>,
      Canonical(v, 0) }

DocTexts == UNION {Serializations(d) : d \in Docs}

\* texts with fenced blocks
FenceDocs ==
    { JNum(<<"1">>), JStr(<<"x">>),
      JObj(<<JStr(<<"a">>), JNum(<<"1">>)>>),
      JArr(<<JNum(<<"1">>), JStr(<<"x">>)>>),
      JObj(<<JStr(<<"a">>), JArr(<<JStr(<<"x">>)>>), JStr(<<"b">>), JFalse>>) }

\* the interior of a block: its text and, when it is a document, the document
ValidInteriors ==
    {[text |-> Compact(d), ok |-> TRUE, doc |-> d] : d \in FenceDocs}
    \cup {[text |-> Canonical(d, 0), ok |-> TRUE, doc |-> d] : d \in FenceDocs}

InvalidTexts ==
    { <<>>, <<"x">>, <<"{", QUOTE, "a", QUOTE, ":">>, <<"[", "1", ",", "]">>, <<"{", "a", ":", "1", "}">>, <<"0", " ", "1">> }

InvalidInteriors == {[text |-> t, ok |-> FALSE, doc |-> JNull] : t \in InvalidTexts}

Interiors == ValidInteriors \cup InvalidInteriors

Block(gapA, interior, gapB) == FenceOpen \o gapA \o interior \o gapB \o FenceClose

ProseBefore == {<<"x">>, <<"x", ":", NL>>}
ProseAfter == {<<"x">>, <<NL, "x", "!">>}
GapsA == {<<>>, <<NL>>, <<" ">>}
GapsB == {<<>>, <<NL>>}

\* one block, with or without prose around it
OneBlockCases ==
    {[text |-> c[1] \o Block(c[2], c[3].text, c[4]) \o c[5],
      first |-> c[3], prose |-> c[1] # <<>> /\ c[5] # <<>>, blocks |-> 1] :
        c \in (ProseBefore \cup {<<>>}) \X GapsA \X Interiors \X GapsB \X (ProseAfter \cup {<<>>})}

SecondInteriors ==
    {in \in Interiors : in.text \in {<<"{", QUOTE, "a", QUOTE, ":", "1", "}">>, <<"[", "1", ",", QUOTE, "x", QUOTE, "]">>, <<"x">>}}

\* two blocks: only the first is ever tried
TwoBlockCases ==
    {[text |-> c[1] \o Block(<<NL>>, c[2].text, <<NL>>) \o c[3]
               \o Block(<<NL>>, c[4].text, <<NL>>) \o <<"x">>,
      first |-> c[2], prose |-> c[1] # <<>>, blocks |-> 2, second |-> c[4]] :
        c \in (ProseBefore \cup {<<>>}) \X Interiors \X {<<NL>>, <<"x">>} \X SecondInteriors}

FencedCases ==
    {[text |-> c.text, first |-> c.first, prose |-> c.prose, blocks |-> 1, second |-> c.first] :
        c \in OneBlockCases}
    \cup TwoBlockCases

FencedTexts == {c.text : c \in FencedCases}

\* texts that look like a block and are not one for the pattern, or hide one
OddTexts ==
    { <<TICK, TICK, TICK, "J", "S", "O", "N", NL, "{", "}", NL, TICK, TICK, TICK>>,
      <<TICK, TICK, TICK, NL, "{", "}", NL, TICK, TICK, TICK>>,
      <<"x", TICK, TICK, TICK, "j", "s", "o", "n", NL, "{", "}">>,
      <<TICK, TICK, TICK, "j", "s", "o", "n", " ", "{", QUOTE, "a", QUOTE, ":", QUOTE, TICK, TICK, TICK, QUOTE, "}", " ", TICK, TICK, TICK>>,
      <<TICK, TICK, TICK, TICK, "j", "s", "o", "n", NL, "[", "1", "]", NL, TICK, TICK, TICK, TICK>>,
      <<"x", " ", "x", ".">>,
      <<TICK, TICK, TICK, "j", "s", "o", "n", TICK, TICK, TICK, "j", "s", "o", "n", " ", "1", " ", TICK, TICK, TICK, " ", TICK, TICK, TICK>>,
      <<QUOTE, TICK, TICK, TICK, "j", "s", "o", "n", " ", "1", " ", TICK, TICK, TICK, QUOTE, " ", "x">> }

\* texts that begin with the error marker's prefix
SentinelTexts ==
    { Sentinel, Sentinel \o <<"x">>, Sentinel \o <<"{", "}">>,
      Sentinel \o Block(<<NL>>, <<"1">>, <<NL>>),
      Sentinel \o Block(<<NL>>, <<"x">>, <<NL>>) }

ShortChars == {QUOTE, "0", "1", "[", "]", "{", "}", ",", ":", " ", NL, FF, "x"}
ShortTexts == SeqsUpTo(ShortChars, MaxLen)

Texts == DocTexts \cup FencedTexts \cup OddTexts \cup SentinelTexts \cup ShortTexts

Payloads ==
    {ContentPayload(t) : t \in Texts}
    \cup NoChoicesPayloads \cup {NullChoicesPayload} \cup NoContentPayloads

\* ------------------------------------------------------------------------
\* Invocations of get_response: each has its own locals
\* ------------------------------------------------------------------------
VARIABLES
    response_json,  \* [p] the parsed upstream payload (line 114)
    content,        \* [p] the local content (line 118), JNull before it is assigned
    pc,             \* [p] the statement the invocation is at
    ret,            \* [p] what the invocation returned or raised
    fed,            \* [p] the payload was built from an earlier output of p
    prev            \* [p] that earlier output

vars == <<response_json, content, pc, ret, fed, prev>>

ConcTexts ==
    { <<"[", "1", "]">>, <<"x">>, <<>>,
      <<"x">> \o Block(<<NL>>, <<"1">>, <<NL>>) \o <<"x">>,
      <<"x">> \o Block(<<NL>>, <<"x">>, <<NL>>) \o Block(<<NL>>, <<"1">>, <<NL>>) }

ConcPayloads ==
    {ContentPayload(t) : t \in ConcTexts}
    \cup {JObj(<<>>), NullChoicesPayload, ChoicePayload(JNull)}

Start ==
    /\ content = [p \in Procs |-> JNull]
    /\ ret = [p \in Procs |-> NoOutcome]
    /\ fed = [p \in Procs |-> FALSE]
    /\ prev = [p \in Procs |-> <<>>]

\* one invocation, any payload
Init ==
    /\ response_json \in {[p \in Procs |-> IF p = 1 THEN rj ELSE JObj(<<>>)] : rj \in Payloads}
    /\ pc = [p \in Procs |-> IF p = 1 THEN "check" ELSE "idle"]
    /\ Start

\* every invocation running
InitConc ==
    /\ response_json \in [Procs -> ConcPayloads]
    /\ pc = [p \in Procs |-> "check"]
    /\ Start

\* line 117
StepChoices(p) ==
    /\ pc[p] = "check"
    /\ LET test == ChoicesTest(response_json[p]) IN
       /\ pc' = [pc EXCEPT ![p] = CASE test = "yes" -> "content"
                                     [] test = "no" -> "marker"
                                     [] OTHER -> "raised"]
       /\ ret' = [ret EXCEPT ![p] = IF test \in {"yes", "no"} THEN NoOutcome ELSE Raise(test)]
    /\ UNCHANGED <<response_json, content, fed, prev>>

\* StepContent keeping content in a variable shared by all invocations
StepContentGlobal(p) ==
    /\ pc[p] = "content"
    /\ LET c == FirstContent(response_json[p]) IN
       /\ content' = [q \in Procs |-> c.v]
       /\ pc' = [pc EXCEPT ![p] = IF c.exc = "none" THEN "direct" ELSE "raised"]
       /\ ret' = [ret EXCEPT ![p] = IF c.exc = "none" THEN NoOutcome ELSE Raise(c.exc)]
    /\ UNCHANGED <<response_json, fed, prev>>

\* line 118
StepContent(p) ==
    /\ pc[p] = "content"
    /\ LET c == FirstContent(response_json[p]) IN
       /\ content' = [content EXCEPT ![p] = c.v]
       /\ pc' = [pc EXCEPT ![p] = IF c.exc = "none" THEN "direct" ELSE "raised"]
       /\ ret' = [ret EXCEPT ![p] = IF c.exc = "none" THEN NoOutcome ELSE Raise(c.exc)]
    /\ UNCHANGED <<response_json, fed, prev>>

\* lines 121-126
StepDirect(p) ==
    /\ pc[p] = "direct"
    /\ LET o == DirectParse(content[p]) IN
       /\ ret' = [ret EXCEPT ![p] = o]
       /\ pc' = [pc EXCEPT ![p] = CASE o.kind = "return" -> "returned"
                                     [] o.kind = "raise" -> "raised"
                                     [] OTHER -> "fence"]
    /\ UNCHANGED <<response_json, content, fed, prev>>

\* lines 128-135
StepFence(p) ==
    /\ pc[p] = "fence"
    /\ LET o == FencedExtraction(content[p]) IN
       /\ ret' = [ret EXCEPT ![p] = o]
       /\ pc' = [pc EXCEPT ![p] = IF o.kind = "return" THEN "returned" ELSE "pass"]
    /\ UNCHANGED <<response_json, content, fed, prev>>

\* line 138
StepPass(p) ==
    /\ pc[p] = "pass"
    /\ ret' = [ret EXCEPT ![p] = PassThrough(content[p])]
    /\ pc' = [pc EXCEPT ![p] = "returned"]
    /\ UNCHANGED <<response_json, content, fed, prev>>

\* line 142
StepMarker(p) ==
    /\ pc[p] = "marker"
    /\ ret' = [ret EXCEPT ![p] = ErrorMarker(response_json[p])]
    /\ pc' = [pc EXCEPT ![p] = "returned"]
    /\ UNCHANGED <<response_json, content, fed, prev>>

\* the output of a successful parse comes back as the content of a new payload
Resubmit(p) ==
    /\ pc[p] = "returned"
    /\ ret[p].stage \in {"direct", "fence"}
    /\ ~fed[p]
    /\ prev' = [prev EXCEPT ![p] = ret[p].text]
    /\ response_json' = [response_json EXCEPT ![p] = ContentPayload(ret[p].text)]
    /\ content' = [content EXCEPT ![p] = JNull]
    /\ ret' = [ret EXCEPT ![p] = NoOutcome]
    /\ pc' = [pc EXCEPT ![p] = "check"]
    /\ fed' = [fed EXCEPT ![p] = TRUE]

Next ==
    \E p \in Procs :
        \/ StepChoices(p)
        \/ StepContent(p)
        \/ StepDirect(p)
        \/ StepFence(p)
        \/ StepPass(p)
        \/ StepMarker(p)
        \/ Resubmit(p)

Spec == Init /\ [][Next]_vars
SpecConc == InitConc /\ [][Next]_vars

\* the whole of lines 117-142 on one payload, run alone
GetResponse(rj) ==
    LET test == ChoicesTest(rj) IN
    IF test = "no" THEN ErrorMarker(rj)
    ELSE IF test # "yes" THEN Raise(test)
    ELSE LET c == FirstContent(rj) IN
         IF c.exc # "none" THEN Raise(c.exc)
         ELSE LET direct == DirectParse(c.v) IN
              IF direct.kind # "none" THEN direct
              ELSE LET fenced == FencedExtraction(c.v) IN
                   IF fenced.kind # "none" THEN fenced
                   ELSE PassThrough(c.v)

Done(p) == pc[p] \in {"returned", "raised"}
TypeOK ==
    /\ \A p \in Procs : pc[p] \in {"idle", "check", "content", "direct", "fence", "pass", "marker", "returned", "raised"}
    /\ \A p \in Procs : ret[p].kind \in {"none", "return", "raise"}

\* ------------------------------------------------------------------------
\* Properties
\* ------------------------------------------------------------------------
StartsWith(s, w) == StartsWithAt(s, 1, w)

IsBlank(s) == \A i \in 1..Len(s) : s[i] \in ReWS

\* the invocation has read a string content and is past the direct parse
PastDirect(p) == content[p].t = "str" /\ pc[p] \in {"fence", "pass", "returned", "raised"}

\* the upstream yielded no completion content: no choices, no first choice,
\* or a first choice without content
HasNoCompletionContent(rj) ==
    \/ KeyIndex(rj, K_choices) = 0
    \/ rj.k[KeyIndex(rj, K_choices)].t = "null"
    \/ rj.k[KeyIndex(rj, K_choices)] = JArr(<<>>)
    \/ FirstContent(rj).exc # "none"
    \/ FirstContent(rj).v.t = "null"

DocCases == UNION {{[text |-> t, doc |-> d] : t \in Serializations(d)} : d \in Docs}

\* C1: whatever the upstream payload, the normalization returns a string and
\* never raises.
C1_NeverRaises ==
    \A p \in Procs : pc[p] # "raised"

\* C2: whenever the upstream yielded no completion content, the output is the
\* literal "ERROR PROCESSING IMAGE: " followed by the payload serialized with
\* 2-space indentation.
C2_NoContentGivesMarker ==
    \A p \in Procs :
        (Done(p) /\ HasNoCompletionContent(response_json[p]))
            => ret[p] = Return(Sentinel \o Canonical(response_json[p], 0), "marker")

\* C3, as stated: a returned string begins with the sentinel if and only if
\* the upstream yielded no completion content.
C3_SentinelIffNoContent ==
    \A p \in Procs :
        pc[p] = "returned"
            => (StartsWith(ret[p].text, Sentinel) <=> HasNoCompletionContent(response_json[p]))

\* C3, amended: a canonical JSON result never begins with the sentinel, and a
\* returned string begins with the sentinel if and only if the upstream
\* yielded no completion content or the string is a pass-through of a raw
\* text that itself begins with the sentinel.
C3_SentinelIffMarkerOrPassedThrough ==
    \A p \in Procs :
        pc[p] = "returned"
            => /\ ret[p].stage \in {"direct", "fence"} => ~StartsWith(ret[p].text, Sentinel)
               /\ StartsWith(ret[p].text, Sentinel)
                    <=> \/ HasNoCompletionContent(response_json[p])
                        \/ ret[p].stage = "pass" /\ StartsWith(content[p].s, Sentinel)

C3_Witness ==
    \E p \in Procs :
        /\ pc[p] = "returned"
        /\ ret[p].stage = "pass"
        /\ StartsWith(ret[p].text, Sentinel)

\* C4: a raw text that is a serialization of a JSON document D, of any
\* top-level type, comes back as the canonical 2-space-indented serialization
\* of D, keys and elements in their order, from the direct parse: the fenced
\* stage is never entered, even with a fence inside a string value.
C4_RoundTrip ==
    \A p \in Procs :
        PastDirect(p) =>
            /\ \A c \in DocCases :
                  content[p].s = c.text => ret[p] = Return(Canonical(c.doc, 0), "direct")
            /\ content[p].s = <<"[", "{", QUOTE, "a", QUOTE, ":", "1", ",", QUOTE, "b", QUOTE, ":", QUOTE, "x", QUOTE, "}", "]">>
                  => ret[p].text = <<"[", NL, " ", " ", "{", NL, " ", " ", " ", " ", QUOTE, "a", QUOTE, ":", " ", "1", ",", NL, " ", " ", " ", " ", QUOTE, "b", QUOTE, ":", " ", QUOTE, "x", QUOTE, NL, " ", " ", "}", NL, "]">>

C4_Witness ==
    \E p \in Procs :
        /\ pc[p] = "returned"
        /\ ret[p].stage = "direct"
        /\ content[p].s = Compact(JObj(<<JStr(<<"b">>), JNum(<<"1">>), JStr(<<"a">>), JStr(<<"x">>)>>))

\* C5, as stated: a raw text that is not valid JSON and contains, between
\* prose, a json-tagged fenced block whose interior is valid JSON comes back
\* as the canonical serialization of the interior of the first such block.
C5_FirstValidBlockWins ==
    \A p \in Procs :
        \A c \in FencedCases :
            (pc[p] = "returned" /\ content[p].s = c.text /\ c.prose /\ (c.first.ok \/ c.second.ok))
                => ret[p].text = Canonical(IF c.first.ok THEN c.first.doc ELSE c.second.doc, 0)

\* C5, amended: a raw text that is not valid JSON and whose first json-tagged
\* fenced block, between prose, has a valid JSON interior comes back as the
\* canonical serialization of that interior, from the fenced stage.
C5_FirstBlockParsed ==
    \A p \in Procs :
        \A c \in FencedCases :
            (PastDirect(p) /\ pc[p] # "fence" /\ content[p].s = c.text /\ c.prose /\ c.first.ok)
                => /\ ~Loads(c.text).ok
                   /\ BlocksFrom(c.text, 1)[1] = c.first.text
                   /\ ret[p] = Return(Canonical(c.first.doc, 0), "fence")

C5_Witness ==
    \E p \in Procs :
        /\ pc[p] = "returned"
        /\ ret[p].stage = "fence"
        /\ \E c \in FencedCases :
              c.text = content[p].s /\ c.prose /\ c.blocks = 2 /\ c.first.ok /\ c.second.ok

\* C6: a raw text that is not valid JSON and whose first json-tagged fenced
\* block fails to parse comes back verbatim: not the interior, and not the
\* parse of a later block, even a valid one.
C6_FirstFenceOnly ==
    \A p \in Procs :
        \A c \in FencedCases :
            (Done(p) /\ content[p].s = c.text /\ ~c.first.ok)
                => /\ Len(BlocksFrom(c.text, 1)) = c.blocks
                   /\ ~Loads(BlocksFrom(c.text, 1)[1]).ok
                   /\ ret[p] = Return(c.text, "pass")
                   /\ ret[p].text # c.first.text
                   /\ c.second.ok => ret[p].text # Canonical(c.second.doc, 0)

C6_Witness ==
    \E p \in Procs :
        /\ pc[p] = "returned"
        /\ ret[p].stage = "pass"
        /\ \E c \in FencedCases :
              c.text = content[p].s /\ c.blocks = 2 /\ ~c.first.ok /\ c.second.ok

\* C7: the output of a successful parse, direct or fenced, fed back as the raw
\* text of a call with completion content, comes back identical.
C7_Idempotent ==
    \A p \in Procs :
        (fed[p] /\ (Done(p) \/ pc[p] \in {"fence", "pass"}))
            => ret[p] = Return(prev[p], "direct")

C7_Witness ==
    \E p \in Procs :
        /\ fed[p]
        /\ pc[p] = "returned"
        /\ ret[p].text = Canonical(JObj(<<JStr(<<"a">>), JArr(<<JStr(<<"x">>)>>), JStr(<<"b">>), JFalse>>), 0)

\* C8, as stated: an empty or whitespace-only raw text comes back as the
\* empty string, a pass-through result.
C8_BlankGivesEmpty ==
    \A p \in Procs :
        (Done(p) /\ content[p].t = "str" /\ IsBlank(content[p].s))
            => ret[p] = Return(<<>>, "pass")

\* C8, amended: for an empty or whitespace-only raw text the direct parse
\* fails, no fenced block is found, and the output is the raw text verbatim
\* as a pass-through result (the empty string when the raw text is empty),
\* never an error marker.
C8_BlankPassedThrough ==
    \A p \in Procs :
        (PastDirect(p) /\ IsBlank(content[p].s))
            => /\ ~ReSearch(content[p].s).found
               /\ pc[p] # "raised"
               /\ pc[p] = "returned" =>
                    /\ ret[p] = Return(content[p].s, "pass")
                    /\ ~StartsWith(ret[p].text, Sentinel)

C8_Witness ==
    \E p \in Procs :
        /\ pc[p] = "returned"
        /\ content[p] = JStr(<<" ", NL>>)
        /\ ret[p].text = <<" ", NL>>

\* C9: in every interleaving of concurrent invocations, each step writes the
\* locals of one invocation only, each finished invocation has the outcome
\* it has when run alone on its payload, and equal payloads give equal outcomes.
C9_NoInterference ==
    /\ [](\A p \in Procs : Done(p) => ret[p] = GetResponse(response_json[p]))
    /\ [](\A p, q \in Procs :
             (Done(p) /\ Done(q) /\ response_json[p] = response_json[q]) => ret[p] = ret[q])
    /\ [][\E p \in Procs : \A q \in Procs \ {p} :
             /\ response_json'[q] = response_json[q]
             /\ content'[q] = content[q]
             /\ pc'[q] = pc[q]
             /\ ret'[q] = ret[q]]_vars

C9_Witness ==
    /\ \A p \in Procs : Done(p)
    /\ ret[1].stage = "fence"
    /\ ret[2].stage = "pass"
    /\ content[1] # content[2]

\* C10: with completion content, the returned string is valid JSON exactly
\* when the direct or the fenced stage succeeded: a pass-through result does
\* not parse, and a canonical result parses back to the value that the stage
\* parsed.
C10_ParseTellsCases ==
    \A p \in Procs :
        (pc[p] = "returned" /\ ret[p].stage # "marker")
            => /\ Loads(ret[p].text).ok <=> ret[p].stage \in {"direct", "fence"}
               /\ ret[p].stage \in {"direct", "fence", "pass"}
               /\ ret[p].stage = "pass" => ret[p].text = content[p].s
               /\ ret[p].stage = "direct"
                    => Loads(ret[p].text).v = Loads(content[p].s).v
               /\ ret[p].stage = "fence"
                    => Loads(ret[p].text).v = Loads(ReSearch(content[p].s).group1).v

C10_Witness ==
    \E p \in Procs :
        /\ pc[p] = "returned"
        /\ ret[p].stage = "fence"
        /\ Loads(ret[p].text).v = JStr(<<"x">>)

====
